---- MODULE Spec2Model ----
(***************************************************************************)
(* Model of the Figgie round engine (src/src/game_controller.py): card     *)
(* dealing and antes, the per-suit best bid / best ask book, add_order,    *)
(* _trade with its cascading bid cancellation, end_round, and the tasks    *)
(* of start_round: strategy tasks, forwarding tasks and the order          *)
(* processing loop.                                                        *)
(***************************************************************************)
EXTENDS Integers, Sequences, FiniteSets, TLC

VARIABLES
    players,      \* GameController.players, as the number of players 1..players
    goal_suit,    \* GameController._goal_suit
    suit_counts,  \* GameController._suit_counts
    dollars,      \* Player.dollars of every player
    inventory,    \* Player.inventory of every player
    pot,          \* GameController._pot
    orderbook,    \* GameController.orderbook
    phase,        \* position of start_round: "Idle", "Running", "Draining",
                  \* "Settled", "NoWinner"
    loop,         \* state of the order processing task: "none", "created",
                  \* "alive", "cancelling", "gathering", "done", "crashed"
    nOrders,      \* number of orders add_order has been called with
    last,         \* what the last call of add_order did (its console line and events)
    names,        \* Player.name of every player
    cooperative,  \* the players whose strategy ends when it is cancelled
    running,      \* GameController._running
    order_queue,  \* Player.order_queue of every player
    merged_order_queue,    \* merged_order_queue of _process_player_orders
    strategy_task,         \* state of every player's strategy task
    forwarding_task,       \* state of the forwarding task of every player's queue
    player_order_queues,   \* GameController._player_order_queues: name -> queue owner
    player_tasks,          \* GameController._player_tasks: name -> task owner
    processed,    \* the orders add_order was called with, in call order
    produced,     \* number of orders every player has put on its order queue
    subscribers,  \* EventBus._subscribers: event type -> set of event queues
    event_queue,  \* Player.event_queue of every player
    put_tasks     \* the tasks publish has created and that have not put yet

engineVars == <<players, goal_suit, suit_counts, dollars, inventory, pot,
                orderbook, nOrders, last>>

pipeVars == <<names, cooperative, running, order_queue, merged_order_queue,
              strategy_task, forwarding_task, player_order_queues, player_tasks,
              processed, produced>>

busVars == <<subscribers, event_queue, put_tasks>>

vars == <<players, goal_suit, suit_counts, dollars, inventory, pot, orderbook,
          phase, loop, nOrders, last, names, cooperative, running, order_queue,
          merged_order_queue, strategy_task, forwarding_task,
          player_order_queues, player_tasks, processed, produced,
          subscribers, event_queue, put_tasks>>

-----------------------------------------------------------------------------
(* Bounds *)

\* number of orders handed to add_order in one round
MaxOrders == 3

\* order prices drawn by the model: a negative price, two ordinary prices,
\* and a price above the 60 dollars left after the ante
BidPrices == {-70, 10, 55, 70}
AskPrices == {-70, 10, 70}

\* the suits that orders are submitted for
OrderSuits == {"hearts", "diamonds"}

\* the players (by position in the players list) that submit orders
Traders == {1, 2, 3}

\* the event queues that are subscribed, with the event types each of them
\* can be subscribed to, and those of them that are bounded, with their
\* size; the others are unbounded (maxsize 0)
SubscriberQueues == {1, 2}
Subscriptions ==
    {<<"OrderPlacedEvent", 1>>, <<"TradeExecutedEvent", 1>>,
     <<"TradeExecutedEvent", 2>>}
BoundedQueues == {1}
BoundedQueueSize == 1

\* the orders of the rounds in which the event bus has subscribers: a bid
\* that rests, an ask and a bid that trade with each other
BusOrders ==
    {[suit |-> "hearts", side |-> "bid", price |-> 55, player |-> 1],
     [suit |-> "diamonds", side |-> "ask", price |-> 10, player |-> 2],
     [suit |-> "diamonds", side |-> "bid", price |-> 10, player |-> 1]}

\* sizes of the players list the rounds are built with
PlayerCounts == {4, 5}

\* number of orders the strategies put on their order queues in one round
MaxProduced == 3

\* the players whose strategy puts orders on its queue, and the orders each
\* of them puts: a bid and an ask that can trade, and a bid at the price of
\* the empty ask
Producers == {1, 2}
ProducedOrders(p) ==
    IF p = 1
    THEN {[suit |-> "diamonds", side |-> "bid", price |-> 10],
          [suit |-> "hearts", side |-> "bid", price |-> 999]}
    ELSE {[suit |-> "diamonds", side |-> "ask", price |-> 10]}

\* the names of the players' strategies: the two strategy classes of
\* strategy.py, two players each, or four strategies with names of their own
NameLists ==
    {<<"Noisy", "Noisy", "BayesianInference", "BayesianInference">>,
     <<"Noisy", "BayesianInference", "Patient", "Greedy">>}

\* the sets of players whose strategy catches CancelledError and goes on
StubbornChoices == {{}, {2}}

\* the 12-card suits and the shuffles the rounds are built with
Suit12Choices == {"diamonds"}
ShuffleStrides == {3}

-----------------------------------------------------------------------------
(* custom_types.py *)

SuitSeq == <<"hearts", "diamonds", "clubs", "spades">>

Suit == {SuitSeq[i] : i \in 1..Len(SuitSeq)}

Color(s) == IF s \in {"hearts", "diamonds"} THEN "red" ELSE "black"

\* "player": None
None == 0

NoBid == [price |-> -999, player |-> None]
NoAsk == [price |-> 999, player |-> None]

-----------------------------------------------------------------------------
(* GameController.__init__ *)

StartDollars == 100
ANTE == 40
CardsPerPlayer4 == 10
CardsPerPlayer5 == 8

\* suits_to_choose before random.shuffle: the three other suits in enum order
SuitsToChoose(s12) == SelectSeq(SuitSeq, LAMBDA s : s # s12)

\* _init_cards, step 2
SuitCountsOf(s12, perm) ==
    [s \in Suit |-> IF s = s12 THEN 12
                    ELSE IF s = perm[3] THEN 8 ELSE 10]

\* _init_cards, step 3: the first suit of the same color that is not the 12-card suit
GoalSuitOf(s12) ==
    LET Same(i) == Color(SuitSeq[i]) = Color(s12) /\ SuitSeq[i] # s12
        first == CHOOSE i \in 1..Len(SuitSeq) :
                     Same(i) /\ \A j \in 1..(i - 1) : ~Same(j)
    IN  SuitSeq[first]

\* _init_cards, step 4: the deck in dict insertion order
BuildDeck(s12, perm) ==
    LET c == SuitCountsOf(s12, perm)
        order == <<perm[1], perm[2], perm[3], s12>>
        Upto(k) == IF k = 0 THEN 0
                   ELSE IF k = 1 THEN c[order[1]]
                   ELSE IF k = 2 THEN c[order[1]] + c[order[2]]
                   ELSE IF k = 3 THEN c[order[1]] + c[order[2]] + c[order[3]]
                   ELSE c[order[1]] + c[order[2]] + c[order[3]] + c[order[4]]
    IN  [i \in 1..Upto(4) |->
            order[CHOOSE k \in 1..4 : Upto(k - 1) < i /\ i <= Upto(k)]]

\* _init_cards, step 5: random.shuffle, as one of the permutations i -> i*stride
Shuffle(deck, stride) ==
    [i \in 1..Len(deck) |-> deck[(((i - 1) * stride) % Len(deck)) + 1]]

\* _distribute_cards dealing eight cards to every player of any game
Distribute_EightEach(deck, n) ==
    LET per == CardsPerPlayer5
        Popped(p) == {Len(deck) - j + 1 : j \in ((p - 1) * per + 1)..(p * per)}
    IN  [p \in 1..n |->
            [s \in Suit |-> Cardinality({i \in Popped(p) : deck[i] = s})]]

\* _distribute_cards: player p pops its cards off the end of the deck
Distribute(deck, n) ==
    LET per == IF n = 4 THEN CardsPerPlayer4
               ELSE IF n = 5 THEN CardsPerPlayer5 ELSE 0
        Popped(p) == {Len(deck) - j + 1 : j \in ((p - 1) * per + 1)..(p * per)}
    IN  [p \in 1..n |->
            [s \in Suit |-> Cardinality({i \in Popped(p) : deck[i] = s})]]

EmptyEntry == [bid |-> NoBid, ask |-> NoAsk, last_traded_price |-> 0]

\* no order: add_order has not been called yet
NoOrder == [suit |-> "none", side |-> "none", price |-> 0, player |-> None]

\* the book and the balances as a call of publish finds them
Snapshot(bk, d, inv) == [book |-> bk, dollars |-> d, inventory |-> inv]

NoLast == [outcome |-> "none", order |-> NoOrder, before |-> EmptyEntry,
           receiver |-> None, giver |-> None, price |-> 0, cancelled |-> {},
           events |-> <<>>,
           published_on |-> Snapshot([s \in Suit |-> EmptyEntry], <<>>, <<>>)]

\* the state __init__ leaves behind for n players
InitEngine(n, s12, stride) ==
    \E perm \in {SuitsToChoose(s12)} :
        /\ players = n
        /\ goal_suit = GoalSuitOf(s12)
        /\ suit_counts = SuitCountsOf(s12, perm)
        /\ inventory = Distribute(Shuffle(BuildDeck(s12, perm), stride), n)
        /\ dollars = [p \in 1..n |-> StartDollars - ANTE]
        /\ pot = n * ANTE
        /\ orderbook = [s \in Suit |-> EmptyEntry]
        /\ nOrders = 0
        /\ last = NoLast

\* every player owns one order queue of its own, empty at first
OrderQueues(n) == [p \in 1..n |-> <<>>]

\* every player owns one event queue of its own, empty at first
EventQueues(n) == [p \in 1..n |-> <<>>]

\* asyncio.Queue(maxsize): the maxsize of a player's event queue, 0 for none
MaxSize(q) == IF q \in BoundedQueues THEN BoundedQueueSize ELSE 0

\* the async components of __init__: no queue registered, no task, not
\* running, an event bus without subscribers
InitAsync(n) ==
    /\ subscribers = <<>>
    /\ event_queue = EventQueues(n)
    /\ put_tasks = {}
    /\ running = FALSE
    /\ order_queue = OrderQueues(n)
    /\ merged_order_queue = <<>>
    /\ strategy_task = [p \in 1..n |-> "none"]
    /\ forwarding_task = [p \in 1..n |-> "none"]
    /\ player_order_queues = <<>>
    /\ player_tasks = <<>>
    /\ processed = <<>>
    /\ produced = [p \in 1..n |-> 0]

\* a round whose orders are handed to add_order one after the other
Init ==
    \E n \in PlayerCounts, s12 \in Suit12Choices, stride \in ShuffleStrides :
        /\ InitEngine(n, s12, stride)
        /\ phase = "Running"
        /\ loop = "alive"
        /\ names = [p \in 1..n |-> "Noisy"]
        /\ cooperative = 1..n
        /\ InitAsync(n)

-----------------------------------------------------------------------------
(* event.py *)

OrderPlacedEvent(player, order) ==
    [type |-> "OrderPlacedEvent", player |-> player, order |-> order]

TradeExecutedEvent(receiver, giver, suit, price) ==
    [type |-> "TradeExecutedEvent", receiver |-> receiver, giver |-> giver,
     suit |-> suit, price |-> price]

EventTypes == {"OrderPlacedEvent", "TradeExecutedEvent"}

\* the queues subscribed to any type at all
SubscribedTo_AnyType(subs, event_type) ==
    UNION {subs[k] : k \in DOMAIN subs}

\* self._subscribers[event_type], nothing if the type has no entry
SubscribedTo(subs, event_type) ==
    IF event_type \in DOMAIN subs THEN subs[event_type] ELSE {}

\* EventBus.subscribe: the set of the type is created if needed, the queue added
Subscribe(event_type, q) ==
    /\ subscribers' = [k \in DOMAIN subscribers \cup {event_type} |->
           IF k = event_type THEN SubscribedTo(subscribers, k) \cup {q}
           ELSE subscribers[k]]
    /\ UNCHANGED <<event_queue, put_tasks>>

\* the tasks EventBus.publish creates for the events of call number seq of
\* add_order: one create_task(queue.put(event)) per subscribed queue
Puts(evs, seq, subs) ==
    UNION {{[event |-> evs[i], seq |-> seq, queue |-> q] :
               q \in SubscribedTo(subs, evs[i].type)} : i \in 1..Len(evs)}

\* asyncio.Queue.full()
Full(q) == MaxSize(q) > 0 /\ Len(event_queue[q]) >= MaxSize(q)

\* a publish that awaits queue.put(event) for every subscribed queue
Publish_Awaiting(evs, seq) ==
    /\ \A t \in Puts(evs, seq, subscribers) : ~Full(t.queue)
    /\ event_queue' = [q \in DOMAIN event_queue |->
           IF \E t \in Puts(evs, seq, subscribers) : t.queue = q
           THEN Append(event_queue[q], [event |-> evs[1], seq |-> seq])
           ELSE event_queue[q]]
    /\ UNCHANGED <<subscribers, put_tasks>>

\* EventBus.publish: the tasks are created, nothing is awaited
Publish(evs, seq) ==
    /\ put_tasks' = put_tasks \cup Puts(evs, seq, subscribers)
    /\ UNCHANGED <<subscribers, event_queue>>

\* a task created by publish runs: queue.put(event), once the queue has room
Deliver(t) ==
    /\ t \in put_tasks
    /\ ~Full(t.queue)
    /\ event_queue' = [event_queue EXCEPT ![t.queue] =
           Append(@, [event |-> t.event, seq |-> t.seq])]
    /\ put_tasks' = put_tasks \ {t}
    /\ UNCHANGED subscribers

-----------------------------------------------------------------------------
(* GameController._trade *)

\* _reset_suit_orderbook forgetting the ask side
ResetSuitOrderbook_KeepAsk(bk, suit) ==
    [bk EXCEPT ![suit].bid = NoBid]

\* _reset_suit_orderbook
ResetSuitOrderbook(bk, suit) ==
    [bk EXCEPT ![suit].bid = NoBid, ![suit].ask = NoAsk]

\* _trade forgetting to credit the giver
MoveDollars_NoCredit(d, receiver, giver, price) ==
    [d EXCEPT ![receiver] = @ - price]

\* the four balance updates of _trade, in program order
MoveDollars(d, receiver, giver, price) ==
    LET d1 == [d EXCEPT ![receiver] = @ - price]
    IN  [d1 EXCEPT ![giver] = @ + price]

\* _trade forgetting to take the card from the giver
MoveCard_NoDebit(inv, receiver, giver, suit) ==
    [inv EXCEPT ![receiver][suit] = @ + 1]

\* the two inventory updates of _trade, in program order
MoveCard(inv, receiver, giver, suit) ==
    LET i1 == [inv EXCEPT ![receiver][suit] = @ + 1]
    IN  [i1 EXCEPT ![giver][suit] = @ - 1]

\* the cancellation scan without the comparison against the new balance
CancelledSuits_All(bk, d, receiver, suit) ==
    {s \in Suit : s # suit /\ bk[s].bid.player = receiver}

\* the bids of the receiver that _trade cancels in the other suits
CancelledSuits(bk, d, receiver, suit) ==
    {s \in Suit : /\ s # suit
                  /\ bk[s].bid.player = receiver
                  /\ d[receiver] < bk[s].bid.price}

CancelBids(bk, d, receiver, suit) ==
    [s \in Suit |-> IF s \in CancelledSuits(bk, d, receiver, suit)
                    THEN [bk[s] EXCEPT !.bid = NoBid]
                    ELSE bk[s]]

\* _trade resetting the suit before it validates the two balances
Trade_ResetFirst(bk, d, inv, receiver, giver, suit, price) ==
    IF d[receiver] < price \/ inv[giver][suit] < 1
    THEN [outcome |-> "trade_rejected", book |-> ResetSuitOrderbook(bk, suit),
          dollars |-> d, inventory |-> inv, cancelled |-> {}, events |-> <<>>,
          published_on |-> Snapshot(bk, d, inv)]
    ELSE LET d1 == MoveDollars(d, receiver, giver, price)
             i1 == MoveCard(inv, receiver, giver, suit)
             b1 == [ResetSuitOrderbook(bk, suit)
                        EXCEPT ![suit].last_traded_price = price]
         IN  [outcome |-> "traded", book |-> CancelBids(b1, d1, receiver, suit),
              dollars |-> d1, inventory |-> i1,
              cancelled |-> {[suit |-> s, price |-> b1[s].bid.price] :
                                s \in CancelledSuits(b1, d1, receiver, suit)},
              events |-> <<TradeExecutedEvent(receiver, giver, suit, price)>>,
              published_on |-> Snapshot(b1, d1, i1)]

Trade(bk, d, inv, receiver, giver, suit, price) ==
    IF d[receiver] < price \/ inv[giver][suit] < 1
    THEN [outcome |-> "trade_rejected", book |-> bk, dollars |-> d,
          inventory |-> inv, cancelled |-> {}, events |-> <<>>,
          published_on |-> Snapshot(bk, d, inv)]
    ELSE LET d1 == MoveDollars(d, receiver, giver, price)
             i1 == MoveCard(inv, receiver, giver, suit)
             b1 == [ResetSuitOrderbook(bk, suit)
                        EXCEPT ![suit].last_traded_price = price]
         IN  [outcome |-> "traded", book |-> CancelBids(b1, d1, receiver, suit),
              dollars |-> d1, inventory |-> i1,
              cancelled |-> {[suit |-> s, price |-> b1[s].bid.price] :
                                s \in CancelledSuits(b1, d1, receiver, suit)},
              events |-> <<TradeExecutedEvent(receiver, giver, suit, price)>>,
              published_on |-> Snapshot(b1, d1, i1)]

-----------------------------------------------------------------------------
(* GameController.add_order *)

\* the trade price taken as the higher of the two prices
Min_Max(a, b) == IF a >= b THEN a ELSE b

\* min(order.price, resting price)
Min(a, b) == IF a <= b THEN a ELSE b

\* the bid priority test with < in place of <=
BidRejected_Strict(bk, o) ==
    o.price < bk[o.suit].bid.price /\ bk[o.suit].bid.player # o.player

BidRejected(bk, o) ==
    o.price <= bk[o.suit].bid.price /\ bk[o.suit].bid.player # o.player

\* the crossing test without the holder identity check
BidCrosses_NoHolderCheck(bk, o) ==
    bk[o.suit].ask.price <= o.price

BidCrosses(bk, o) ==
    bk[o.suit].ask.price <= o.price /\ bk[o.suit].ask.player # o.player

AskRejected(bk, o) ==
    o.price >= bk[o.suit].ask.price /\ bk[o.suit].ask.player # o.player

AskCrosses(bk, o) ==
    bk[o.suit].bid.price >= o.price /\ bk[o.suit].bid.player # o.player

Unchanged(outcome, bk, d, inv) ==
    [outcome |-> outcome, book |-> bk, dollars |-> d, inventory |-> inv,
     cancelled |-> {}, receiver |-> None, giver |-> None, price |-> 0,
     events |-> <<>>, published_on |-> Snapshot(bk, d, inv)]

WithParties(r, receiver, giver, price) ==
    [outcome |-> r.outcome, book |-> r.book, dollars |-> r.dollars,
     inventory |-> r.inventory, cancelled |-> r.cancelled,
     receiver |-> receiver, giver |-> giver, price |-> price,
     events |-> r.events, published_on |-> r.published_on]

\* the resting branch leaving the event bus alone
Rest_Silent(bk, d, inv, o) ==
    Unchanged("rested",
              [bk EXCEPT ![o.suit][o.side] = [price |-> o.price, player |-> o.player]],
              d, inv)

\* the order becomes the best bid / best ask and OrderPlacedEvent is published
Rest(bk, d, inv, o) ==
    [Unchanged("rested",
               [bk EXCEPT ![o.suit][o.side] = [price |-> o.price, player |-> o.player]],
               d, inv)
        EXCEPT !.events = <<OrderPlacedEvent(o.player, o)>>]

AddBid(bk, d, inv, o) ==
    IF BidRejected(bk, o) THEN Unchanged("rejected", bk, d, inv)
    ELSE IF BidCrosses(bk, o)
    THEN LET asker == bk[o.suit].ask.player
             trade_price == Min(o.price, bk[o.suit].ask.price)
         IN  IF asker = None THEN Unchanged("raised", bk, d, inv)
             ELSE WithParties(Trade(bk, d, inv, o.player, asker, o.suit, trade_price),
                              o.player, asker, trade_price)
    ELSE Rest(bk, d, inv, o)

\* add_order without the test that the asker holds a card of the suit
AddAsk_NoHoldingCheck(bk, d, inv, o) ==
    IF AskRejected(bk, o) THEN Unchanged("rejected", bk, d, inv)
    ELSE IF AskCrosses(bk, o)
    THEN LET bidder == bk[o.suit].bid.player
             trade_price == Min(o.price, bk[o.suit].bid.price)
         IN  IF bidder = None THEN Unchanged("raised", bk, d, inv)
             ELSE WithParties(Trade(bk, d, inv, bidder, o.player, o.suit, trade_price),
                              bidder, o.player, trade_price)
    ELSE Rest(bk, d, inv, o)

AddAsk(bk, d, inv, o) ==
    IF inv[o.player][o.suit] < 1 THEN Unchanged("rejected", bk, d, inv)
    ELSE IF AskRejected(bk, o) THEN Unchanged("rejected", bk, d, inv)
    ELSE IF AskCrosses(bk, o)
    THEN LET bidder == bk[o.suit].bid.player
             trade_price == Min(o.price, bk[o.suit].bid.price)
         IN  IF bidder = None THEN Unchanged("raised", bk, d, inv)
             ELSE WithParties(Trade(bk, d, inv, bidder, o.player, o.suit, trade_price),
                              bidder, o.player, trade_price)
    ELSE Rest(bk, d, inv, o)

\* what add_order returns to its caller: None on every path
ReturnedStatus(outcome) == None

\* Order.__init__: the orders that reach add_order
Orders ==
    [suit : OrderSuits, side : {"bid"}, price : BidPrices, player : Traders]
        \cup [suit : OrderSuits, side : {"ask"}, price : AskPrices, player : Traders]

\* add_order(order): the book, the balances and the record of the call
ApplyOrder(o) ==
    /\ \E r \in {IF o.side = "bid" THEN AddBid(orderbook, dollars, inventory, o)
                ELSE AddAsk(orderbook, dollars, inventory, o)} :
           /\ orderbook' = r.book
           /\ dollars' = r.dollars
           /\ inventory' = r.inventory
           /\ last' = [outcome |-> r.outcome, order |-> o,
                       before |-> orderbook[o.suit], receiver |-> r.receiver,
                       giver |-> r.giver, price |-> r.price,
                       cancelled |-> r.cancelled, events |-> r.events,
                       published_on |-> r.published_on]
           /\ Publish(r.events, nOrders + 1)
    /\ nOrders' = nOrders + 1
    /\ UNCHANGED <<players, goal_suit, suit_counts, pot>>

\* one iteration of the loop of _process_player_orders: add_order(order)
AddOrder(o) ==
    /\ phase = "Running"
    /\ loop = "alive"
    /\ nOrders < MaxOrders
    /\ ApplyOrder(o)
    /\ loop' = IF last'.outcome = "raised" THEN "crashed" ELSE "alive"
    /\ UNCHANGED phase
    /\ UNCHANGED pipeVars

-----------------------------------------------------------------------------
(* GameController.end_round *)

\* a scan that stops at the first player holding a goal card
RECURSIVE Scan_FirstHolder(_, _, _, _, _)
Scan_FirstHolder(inv, goal, p, winner, max_cards) ==
    IF p > Len(inv) THEN winner
    ELSE IF inv[p][goal] > max_cards /\ winner = None
         THEN Scan_FirstHolder(inv, goal, p + 1, p, inv[p][goal])
         ELSE Scan_FirstHolder(inv, goal, p + 1, winner, max_cards)

\* a scan that compares with >=: the last player holding the maximum
RECURSIVE Scan_LastMax(_, _, _, _, _)
Scan_LastMax(inv, goal, p, winner, max_cards) ==
    IF p > Len(inv) THEN winner
    ELSE IF inv[p][goal] >= max_cards
         THEN Scan_LastMax(inv, goal, p + 1, p, inv[p][goal])
         ELSE Scan_LastMax(inv, goal, p + 1, winner, max_cards)

\* the scan of end_round: the first player holding the strict maximum, None if
\* nobody holds a goal card
RECURSIVE Scan(_, _, _, _, _)
Scan(inv, goal, p, winner, max_cards) ==
    IF p > Len(inv) THEN winner
    ELSE IF inv[p][goal] > max_cards
         THEN Scan(inv, goal, p + 1, p, inv[p][goal])
         ELSE Scan(inv, goal, p + 1, winner, max_cards)

\* end_round starting its scan from a maximum no player can exceed
Winner_HighStart(inv, goal) == Scan(inv, goal, 1, None, 12)

Winner(inv, goal) == Scan(inv, goal, 1, None, 0)

\* end_round: the pot goes to the winner, or ValueError("No winner found")
Settle ==
    /\ LET winner == Winner(inventory, goal_suit)
       IN  IF winner # None
           THEN /\ dollars' = [dollars EXCEPT ![winner] = @ + pot]
                /\ pot' = 0
                /\ phase' = "Settled"
           ELSE /\ UNCHANGED <<dollars, pot>>
                /\ phase' = "NoWinner"
    /\ UNCHANGED <<players, goal_suit, suit_counts, inventory, orderbook, loop,
                   nOrders, last>>

\* start_round after the round duration: tasks are cancelled, end_round runs
EndRound ==
    /\ phase = "Running"
    /\ Settle
    /\ UNCHANGED busVars
    /\ UNCHANGED pipeVars

-----------------------------------------------------------------------------

Next ==
    \/ \E o \in Orders : AddOrder(o)
    \/ EndRound

Spec == Init /\ [][Next]_vars

-----------------------------------------------------------------------------
(* Rounds in which strategies subscribe to the event bus *)

\* BayesianInference.start subscribes the player's event queue to a type
SubscribeQueue(event_type, q) ==
    /\ phase = "Running"
    /\ Subscribe(event_type, q)
    /\ UNCHANGED engineVars
    /\ UNCHANGED pipeVars
    /\ UNCHANGED <<phase, loop>>

\* a task of publish puts its event on its queue
PutEvent(t) ==
    /\ Deliver(t)
    /\ UNCHANGED engineVars
    /\ UNCHANGED pipeVars
    /\ UNCHANGED <<phase, loop>>

\* BayesianInference.start takes the next event off the player's event queue
TakeEvent(q) ==
    /\ event_queue[q] # <<>>
    /\ event_queue' = [event_queue EXCEPT ![q] = Tail(@)]
    /\ UNCHANGED <<subscribers, put_tasks>>
    /\ UNCHANGED engineVars
    /\ UNCHANGED pipeVars
    /\ UNCHANGED <<phase, loop>>

BusInit ==
    \E s12 \in Suit12Choices, stride \in ShuffleStrides :
        /\ InitEngine(4, s12, stride)
        /\ phase = "Running"
        /\ loop = "alive"
        /\ names = [p \in 1..4 |-> "BayesianInference"]
        /\ cooperative = 1..4
        /\ InitAsync(4)

BusNext ==
    \/ \E o \in BusOrders : AddOrder(o)
    \/ \E sub \in Subscriptions : SubscribeQueue(sub[1], sub[2])
    \/ \E t \in put_tasks : PutEvent(t)
    \/ \E q \in SubscriberQueues : TakeEvent(q)

BusSpec == BusInit /\ [][BusNext]_vars

-----------------------------------------------------------------------------
(* The construction of a round: GameController.__init__ as a step *)

\* sizes of the players list __init__ is called with
RequestedCounts == 3..6

\* the outcomes of the random choices of _init_cards
DealSuit12 == Suit
DealStrides == {1, 3, 7}
DealPerms(s12) ==
    {perm \in [1..3 -> Suit \ {s12}] :
        \A i \in 1..3, j \in 1..3 : i # j => perm[i] # perm[j]}

\* Player.__init__: no dollars, an inventory of zeros
NewPlayers(n) ==
    /\ players = n
    /\ dollars = [p \in 1..n |-> 0]
    /\ inventory = [p \in 1..n |-> [s \in Suit |-> 0]]

\* a controller whose attributes are not set yet
NoController ==
    /\ goal_suit = "none"
    /\ suit_counts = [s \in Suit |-> 0]
    /\ pot = 0
    /\ orderbook = [s \in Suit |->
                       [bid |-> [price |-> 0, player |-> None],
                        ask |-> [price |-> 0, player |-> None],
                        last_traded_price |-> -1]]
    /\ nOrders = 0
    /\ last = NoLast

\* a players list before GameController(players) is called
DealInit ==
    \E n \in RequestedCounts :
        /\ NewPlayers(n)
        /\ NoController
        /\ phase = "Unbuilt"
        /\ loop = "none"
        /\ names = [p \in 1..n |-> "Noisy"]
        /\ cooperative = 1..n
        /\ InitAsync(n)

\* the test on len(players) that __init__ starts with
ValidPlayerCount(n) == ~(n < 4 \/ n > 5)

\* __init__ with 4 or 5 players: cards, dollars, antes, book
Construct ==
    /\ phase = "Unbuilt"
    /\ ValidPlayerCount(players)
    /\ \E s12 \in DealSuit12, stride \in DealStrides :
        \E perm \in DealPerms(s12) :
            /\ goal_suit' = GoalSuitOf(s12)
            /\ suit_counts' = SuitCountsOf(s12, perm)
            /\ inventory' =
                  Distribute(Shuffle(BuildDeck(s12, perm), stride), players)
    /\ dollars' = [p \in 1..players |-> StartDollars - ANTE]
    /\ pot' = players * ANTE
    /\ orderbook' = [s \in Suit |-> EmptyEntry]
    /\ phase' = "Idle"
    /\ UNCHANGED <<players, nOrders, last, loop>>
    /\ UNCHANGED pipeVars
    /\ UNCHANGED busVars

\* __init__ with another number of players: raise ValueError
ConstructRaises ==
    /\ phase = "Unbuilt"
    /\ ~ValidPlayerCount(players)
    /\ phase' = "ValueError"
    /\ UNCHANGED engineVars
    /\ UNCHANGED loop
    /\ UNCHANGED pipeVars
    /\ UNCHANGED busVars

DealNext ==
    \/ Construct
    \/ ConstructRaises

DealSpec == DealInit /\ [][DealNext]_vars

-----------------------------------------------------------------------------
(* GameController.start_round and its tasks *)

Range(f) == {f[k] : k \in DOMAIN f}

\* the loop "for player in self.players: d[player.name] = ..." over the
\* first n players: a later player replaces an earlier one of the same name
RECURSIVE Registered(_, _, _)
Registered(d, nm, n) ==
    IF n = 0 THEN d
    ELSE LET e == Registered(d, nm, n - 1)
         IN  [k \in DOMAIN e \cup {nm[n]} |-> IF k = nm[n] THEN n ELSE e[k]]

\* a game of four players that start_round has not been called on yet
PipeInit ==
    \E s12 \in Suit12Choices, stride \in ShuffleStrides,
       nm \in NameLists, stubborn \in StubbornChoices :
        /\ InitEngine(4, s12, stride)
        /\ phase = "Idle"
        /\ loop = "none"
        /\ names = nm
        /\ cooperative = (1..4) \ stubborn
        /\ InitAsync(4)

\* Player.start_strategy runs Strategy.start of the player's strategy
StartStrategy(p) == "running"

\* start_round up to its sleep: the flag, the two dictionaries, one strategy
\* task per player, the order processing task
StartRound ==
    /\ phase = "Idle"
    /\ running' = TRUE
    /\ player_order_queues' = Registered(player_order_queues, names, players)
    /\ player_tasks' = Registered(player_tasks, names, players)
    /\ strategy_task' = [p \in 1..players |-> StartStrategy(p)]
    /\ loop' = "created"
    /\ phase' = "Running"
    /\ UNCHANGED engineVars
    /\ UNCHANGED busVars
    /\ UNCHANGED <<names, cooperative, order_queue, merged_order_queue,
                   forwarding_task, processed, produced>>

\* a strategy that pays for the order it puts out of its own dollars
Produce_Paying(p, shape) ==
    /\ strategy_task[p] = "running"
    /\ produced[1] + produced[2] + produced[3] + produced[4] < MaxProduced
    /\ order_queue' = [order_queue EXCEPT ![p] =
           Append(@, [order |-> [suit |-> shape.suit, side |-> shape.side,
                                 price |-> shape.price, player |-> p],
                      owner |-> p, seq |-> produced[p] + 1, put_in |-> phase])]
    /\ produced' = [produced EXCEPT ![p] = @ + 1]
    /\ dollars' = [dollars EXCEPT ![p] = @ - 1]
    /\ UNCHANGED <<players, goal_suit, suit_counts, inventory, pot, orderbook,
                   nOrders, last>>
    /\ UNCHANGED busVars
    /\ UNCHANGED <<phase, loop, names, cooperative, running, merged_order_queue,
                   strategy_task, forwarding_task, player_order_queues,
                   player_tasks, processed>>

\* one iteration of the loop of Strategy.start: an order is put on the
\* player's own order queue
Produce(p, shape) ==
    /\ strategy_task[p] = "running"
    /\ produced[1] + produced[2] + produced[3] + produced[4] < MaxProduced
    /\ order_queue' = [order_queue EXCEPT ![p] =
           Append(@, [order |-> [suit |-> shape.suit, side |-> shape.side,
                                 price |-> shape.price, player |-> p],
                      owner |-> p, seq |-> produced[p] + 1, put_in |-> phase])]
    /\ produced' = [produced EXCEPT ![p] = @ + 1]
    /\ UNCHANGED engineVars
    /\ UNCHANGED busVars
    /\ UNCHANGED <<phase, loop, names, cooperative, running, merged_order_queue,
                   strategy_task, forwarding_task, player_order_queues,
                   player_tasks, processed>>

\* CancelledError reaches a strategy that leaves its loop on it
StrategyExit(p) ==
    /\ strategy_task[p] = "cancelling"
    /\ p \in cooperative
    /\ strategy_task' = [strategy_task EXCEPT ![p] = "done"]
    /\ UNCHANGED engineVars
    /\ UNCHANGED busVars
    /\ UNCHANGED <<phase, loop, names, cooperative, running, order_queue,
                   merged_order_queue, forwarding_task, player_order_queues,
                   player_tasks, processed, produced>>

\* CancelledError reaches a strategy that catches it and goes on
StrategySwallow(p) ==
    /\ strategy_task[p] = "cancelling"
    /\ p \notin cooperative
    /\ strategy_task' = [strategy_task EXCEPT ![p] = "running"]
    /\ UNCHANGED engineVars
    /\ UNCHANGED busVars
    /\ UNCHANGED <<phase, loop, names, cooperative, running, order_queue,
                   merged_order_queue, forwarding_task, player_order_queues,
                   player_tasks, processed, produced>>

\* _process_player_orders up to its first get: one forwarding task for
\* every queue in _player_order_queues.values()
PipelineStart ==
    /\ loop = "created"
    /\ forwarding_task' = [p \in 1..players |->
           IF p \in Range(player_order_queues) THEN "created" ELSE "none"]
    /\ loop' = IF running THEN "alive" ELSE "gathering"
    /\ UNCHANGED engineVars
    /\ UNCHANGED busVars
    /\ UNCHANGED <<phase, names, cooperative, running, order_queue,
                   merged_order_queue, strategy_task, player_order_queues,
                   player_tasks, processed, produced>>

\* the first step of the forwarding tasks, which were created one after the
\* other: "while self._running", then the wait in player_queue.get()
ForwardersStart ==
    /\ \E p \in 1..players : forwarding_task[p] = "created"
    /\ forwarding_task' = [p \in 1..players |->
           IF forwarding_task[p] = "created"
           THEN IF running THEN "waiting" ELSE "done"
           ELSE forwarding_task[p]]
    /\ UNCHANGED engineVars
    /\ UNCHANGED busVars
    /\ UNCHANGED <<phase, loop, names, cooperative, running, order_queue,
                   merged_order_queue, strategy_task, player_order_queues,
                   player_tasks, processed, produced>>

\* a forwarding task that leaves the order it forwards on the player's queue
Forward_NoPop(p) ==
    /\ forwarding_task[p] = "waiting"
    /\ order_queue[p] # <<>>
    /\ merged_order_queue' = Append(merged_order_queue, Head(order_queue[p]))
    /\ forwarding_task' = [forwarding_task EXCEPT ![p] =
           IF running THEN "waiting" ELSE "done"]
    /\ UNCHANGED engineVars
    /\ UNCHANGED busVars
    /\ UNCHANGED <<phase, loop, names, cooperative, running, strategy_task,
                   order_queue, player_order_queues, player_tasks, processed,
                   produced>>

\* a forwarding task that calls add_order itself
Forward_Applying(p) ==
    /\ forwarding_task[p] = "waiting"
    /\ order_queue[p] # <<>>
    /\ ApplyOrder(Head(order_queue[p]).order)
    /\ order_queue' = [order_queue EXCEPT ![p] = Tail(@)]
    /\ processed' = Append(processed, <<Head(order_queue[p]).owner,
                                        Head(order_queue[p]).seq>>)
    /\ forwarding_task' = [forwarding_task EXCEPT ![p] =
           IF running THEN "waiting" ELSE "done"]
    /\ UNCHANGED <<phase, loop, names, cooperative, running, strategy_task,
                   merged_order_queue, player_order_queues, player_tasks,
                   produced>>

\* one iteration of forward_orders: get from the player's queue, put on the
\* merged queue, "while self._running"
Forward(p) ==
    /\ forwarding_task[p] = "waiting"
    /\ order_queue[p] # <<>>
    /\ merged_order_queue' = Append(merged_order_queue, Head(order_queue[p]))
    /\ order_queue' = [order_queue EXCEPT ![p] = Tail(@)]
    /\ forwarding_task' = [forwarding_task EXCEPT ![p] =
           IF running THEN "waiting" ELSE "done"]
    /\ UNCHANGED engineVars
    /\ UNCHANGED busVars
    /\ UNCHANGED <<phase, loop, names, cooperative, running, strategy_task,
                   player_order_queues, player_tasks, processed, produced>>

\* CancelledError reaches the forwarding tasks, which were cancelled one
\* after the other, in their get: break
ForwardersExit ==
    /\ \E p \in 1..players : forwarding_task[p] = "cancelling"
    /\ forwarding_task' = [p \in 1..players |->
           IF forwarding_task[p] = "cancelling" THEN "done"
           ELSE forwarding_task[p]]
    /\ UNCHANGED engineVars
    /\ UNCHANGED busVars
    /\ UNCHANGED <<phase, loop, names, cooperative, running, order_queue,
                   merged_order_queue, strategy_task, player_order_queues,
                   player_tasks, processed, produced>>

\* task.cancel() on every forwarding task: a finished task is left alone
CancelForwarders(f) ==
    [p \in DOMAIN f |-> IF f[p] \in {"created", "waiting"} THEN "cancelling"
                        ELSE f[p]]

\* an order processing loop that takes the newest order of the merged queue
Consume_Newest ==
    /\ loop = "alive"
    /\ merged_order_queue # <<>>
    /\ \E k \in {Len(merged_order_queue)} :
           /\ ApplyOrder(merged_order_queue[k].order)
           /\ merged_order_queue' = SubSeq(merged_order_queue, 1, k - 1)
           /\ processed' = Append(processed, <<merged_order_queue[k].owner,
                                               merged_order_queue[k].seq>>)
    /\ loop' = IF last'.outcome = "raised" THEN "crashed"
               ELSE IF running THEN "alive" ELSE "gathering"
    /\ forwarding_task' = IF last'.outcome # "raised" /\ ~running
                          THEN CancelForwarders(forwarding_task)
                          ELSE forwarding_task
    /\ UNCHANGED <<phase, names, cooperative, running, order_queue,
                   strategy_task, player_order_queues, player_tasks, produced>>

\* one iteration of the loop of _process_player_orders: get from the
\* merged queue, add_order; a ValueError of add_order ends the task
Consume ==
    /\ loop = "alive"
    /\ merged_order_queue # <<>>
    /\ ApplyOrder(Head(merged_order_queue).order)
    /\ merged_order_queue' = Tail(merged_order_queue)
    /\ processed' = Append(processed, <<Head(merged_order_queue).owner,
                                        Head(merged_order_queue).seq>>)
    /\ loop' = IF last'.outcome = "raised" THEN "crashed"
               ELSE IF running THEN "alive" ELSE "gathering"
    /\ forwarding_task' = IF last'.outcome # "raised" /\ ~running
                          THEN CancelForwarders(forwarding_task)
                          ELSE forwarding_task
    /\ UNCHANGED <<phase, names, cooperative, running, order_queue,
                   strategy_task, player_order_queues, player_tasks, produced>>

\* CancelledError reaches _process_player_orders in its get: break, cancel
\* the forwarding tasks, gather them
ConsumerCancelled ==
    /\ loop = "cancelling"
    /\ forwarding_task' = CancelForwarders(forwarding_task)
    /\ loop' = "gathering"
    /\ UNCHANGED engineVars
    /\ UNCHANGED busVars
    /\ UNCHANGED <<phase, names, cooperative, running, order_queue,
                   merged_order_queue, strategy_task, player_order_queues,
                   player_tasks, processed, produced>>

\* the gather of _process_player_orders returns: every forwarding task ended
ConsumerDone ==
    /\ loop = "gathering"
    /\ \A p \in 1..players : forwarding_task[p] \in {"none", "done"}
    /\ loop' = "done"
    /\ UNCHANGED engineVars
    /\ UNCHANGED busVars
    /\ UNCHANGED <<phase, names, cooperative, running, order_queue,
                   merged_order_queue, strategy_task, forwarding_task,
                   player_order_queues, player_tasks, processed, produced>>

\* a start_round that cancels the tasks and leaves the flag set
RoundTimeUp_KeepRunning ==
    /\ phase = "Running"
    /\ loop # "created"
    /\ loop' = IF loop = "alive" THEN "cancelling" ELSE loop
    /\ strategy_task' = [p \in 1..players |->
           IF p \in Range(player_tasks) /\ strategy_task[p] = "running"
           THEN "cancelling" ELSE strategy_task[p]]
    /\ phase' = "Draining"
    /\ UNCHANGED engineVars
    /\ UNCHANGED busVars
    /\ UNCHANGED <<names, cooperative, running, order_queue, merged_order_queue,
                   forwarding_task, player_order_queues, player_tasks,
                   processed, produced>>

\* start_round after its sleep: the flag is cleared, the order processing
\* task and the tasks in _player_tasks.values() are cancelled
RoundTimeUp ==
    /\ phase = "Running"
    /\ loop # "created"
    /\ running' = FALSE
    /\ loop' = IF loop = "alive" THEN "cancelling" ELSE loop
    /\ strategy_task' = [p \in 1..players |->
           IF p \in Range(player_tasks) /\ strategy_task[p] = "running"
           THEN "cancelling" ELSE strategy_task[p]]
    /\ phase' = "Draining"
    /\ UNCHANGED engineVars
    /\ UNCHANGED busVars
    /\ UNCHANGED <<names, cooperative, order_queue, merged_order_queue,
                   forwarding_task, player_order_queues, player_tasks,
                   processed, produced>>

\* a start_round that lets the CancelledError of its sleep through: it ends
\* there, with its tasks left as they are
RoundCancelled_Surfaced ==
    /\ phase = "Running"
    /\ loop # "created"
    /\ phase' = "Cancelled"
    /\ UNCHANGED engineVars
    /\ UNCHANGED busVars
    /\ UNCHANGED <<loop, names, cooperative, running, order_queue,
                   merged_order_queue, strategy_task, forwarding_task,
                   player_order_queues, player_tasks, processed, produced>>

\* start_round is cancelled in its sleep: the CancelledError is caught, the
\* flag is cleared, the order processing task and the tasks in
\* _player_tasks.values() are cancelled
RoundCancelled ==
    /\ phase = "Running"
    /\ loop # "created"
    /\ running' = FALSE
    /\ loop' = IF loop = "alive" THEN "cancelling" ELSE loop
    /\ strategy_task' = [p \in 1..players |->
           IF p \in Range(player_tasks) /\ strategy_task[p] = "running"
           THEN "cancelling" ELSE strategy_task[p]]
    /\ phase' = "Draining"
    /\ UNCHANGED engineVars
    /\ UNCHANGED busVars
    /\ UNCHANGED <<names, cooperative, order_queue, merged_order_queue,
                   forwarding_task, player_order_queues, player_tasks,
                   processed, produced>>

\* the tasks start_round gathers have all ended
Gathered ==
    /\ loop \in {"done", "crashed"}
    /\ \A p \in Range(player_tasks) : strategy_task[p] = "done"

\* the gather of start_round returns and end_round is called
RoundEnd ==
    /\ phase = "Draining"
    /\ Gathered
    /\ Settle
    /\ UNCHANGED busVars
    /\ UNCHANGED pipeVars

PipeNext ==
    \/ StartRound
    \/ \E p \in Producers : \E shape \in ProducedOrders(p) : Produce(p, shape)
    \/ \E p \in 1..players : StrategyExit(p)
    \/ \E p \in 1..players : StrategySwallow(p)
    \/ PipelineStart
    \/ ForwardersStart
    \/ \E p \in 1..players : Forward(p)
    \/ ForwardersExit
    \/ Consume
    \/ ConsumerCancelled
    \/ ConsumerDone
    \/ RoundTimeUp
    \/ RoundEnd

PipeSpec == PipeInit /\ [][PipeNext]_vars

\* a round that is ended by a cancellation of start_round from outside
\* before its duration is over
AbortNext ==
    \/ StartRound
    \/ \E p \in Producers : \E shape \in ProducedOrders(p) : Produce(p, shape)
    \/ \E p \in 1..players : StrategyExit(p)
    \/ \E p \in 1..players : StrategySwallow(p)
    \/ PipelineStart
    \/ ForwardersStart
    \/ \E p \in 1..players : Forward(p)
    \/ ForwardersExit
    \/ Consume
    \/ ConsumerCancelled
    \/ ConsumerDone
    \/ RoundCancelled
    \/ RoundEnd

AbortSpec == PipeInit /\ [][AbortNext]_vars

\* the position of the tasks and the content of the queues: every action
\* changes one of them
taskVars == <<phase, loop, nOrders, running, order_queue, merged_order_queue,
              strategy_task, forwarding_task>>

\* the event loop runs every task that is ready to run: the tasks of
\* start_round, of _process_player_orders and of forward_orders, and a
\* strategy that was cancelled; a strategy need not put orders
FairPipeSpec ==
    /\ PipeSpec
    /\ WF_taskVars(StartRound)
    /\ WF_taskVars(PipelineStart)
    /\ WF_taskVars(ForwardersStart)
    /\ WF_taskVars(ForwardersExit)
    /\ WF_taskVars(Consume)
    /\ WF_taskVars(ConsumerCancelled)
    /\ WF_taskVars(ConsumerDone)
    /\ WF_taskVars(RoundTimeUp)
    /\ WF_taskVars(RoundEnd)
    /\ \A p \in 1..4 : /\ WF_taskVars(Forward(p))
                        /\ WF_taskVars(StrategyExit(p))
                        /\ WF_taskVars(StrategySwallow(p))

FairAbortSpec ==
    /\ AbortSpec
    /\ WF_taskVars(StartRound)
    /\ WF_taskVars(PipelineStart)
    /\ WF_taskVars(ForwardersStart)
    /\ WF_taskVars(ForwardersExit)
    /\ WF_taskVars(Consume)
    /\ WF_taskVars(ConsumerCancelled)
    /\ WF_taskVars(ConsumerDone)
    /\ WF_taskVars(RoundEnd)
    /\ \A p \in 1..4 : /\ WF_taskVars(Forward(p))
                        /\ WF_taskVars(StrategyExit(p))
                        /\ WF_taskVars(StrategySwallow(p))

TypeOK ==
    /\ players \in PlayerCounts
    /\ goal_suit \in Suit
    /\ pot \in Int
    /\ phase \in {"Idle", "Running", "Draining", "Settled", "NoWinner",
                  "Cancelled"}
    /\ loop \in {"none", "created", "alive", "cancelling", "gathering", "done",
                 "crashed"}
    /\ nOrders \in 0..MaxOrders

-----------------------------------------------------------------------------
(* Rounds with a player of the Noisy strategy: strategy.py *)

\* the suits and the outcomes of random.randint(min_price, max_price) that
\* the Noisy strategy draws, and the orders another player's strategy puts
NoisySuits == {"hearts", "diamonds"}
Draws == {"low", "high"}
OtherPlayers == {2}
OtherOrders ==
    {[suit |-> "diamonds", side |-> "ask", price |-> 70],
     [suit |-> "hearts", side |-> "bid", price |-> 15]}

\* _create_random_order returning None, or randint raising ValueError on an
\* empty range, which the loop of start catches and prints
NoRandomOrder == [emitted |-> FALSE, order |-> NoOrder]

\* the end of _create_random_order: randint and the Order
RandomOrder(p, suit, side, min_price, max_price, draw) ==
    IF min_price > max_price THEN NoRandomOrder
    ELSE [emitted |-> TRUE,
          order |-> [suit |-> suit, side |-> side,
                     price |-> IF draw = "low" THEN min_price ELSE max_price,
                     player |-> p]]

\* Noisy._create_random_order for the drawn suit and side
CreateRandomOrder(p, suit, side, draw, bk, d, inv) ==
    LET current_bid == bk[suit].bid.price
        current_ask == bk[suit].ask.price
    IN  IF side = "bid"
        THEN IF inv[p][suit] >= 3 THEN NoRandomOrder
             ELSE IF current_bid # -999 /\ bk[suit].bid.player # p
             THEN IF current_bid + 1 > Min(15, d[p]) THEN NoRandomOrder
                  ELSE RandomOrder(p, suit, side, current_bid + 1,
                                   Min(15, d[p]), draw)
             ELSE RandomOrder(p, suit, side, 1, Min(15, d[p]), draw)
        ELSE IF inv[p][suit] < 1 THEN NoRandomOrder
             ELSE IF current_ask # 999 /\ bk[suit].ask.player # p
             THEN IF current_ask - 1 < 1 THEN NoRandomOrder
                  ELSE RandomOrder(p, suit, side, 1, current_ask - 1, draw)
             ELSE RandomOrder(p, suit, side, 1, 15, draw)

\* one iteration of the loop of Noisy.start after its sleep: the order of
\* _create_random_order, if there is one, is put on the player's order
\* queue; an iteration without an order changes nothing
NoisyStep(p, suit, side, draw) ==
    /\ names[p] = "Noisy"
    /\ strategy_task[p] = "running"
    /\ produced[1] + produced[2] + produced[3] + produced[4] < MaxProduced
    /\ \E r \in {CreateRandomOrder(p, suit, side, draw,
                                    orderbook, dollars, inventory)} :
          /\ r.emitted
          /\ order_queue' = [order_queue EXCEPT ![p] =
                 Append(@, [order |-> r.order, owner |-> p,
                            seq |-> produced[p] + 1, put_in |-> phase])]
    /\ produced' = [produced EXCEPT ![p] = @ + 1]
    /\ UNCHANGED engineVars
    /\ UNCHANGED busVars
    /\ UNCHANGED <<phase, loop, names, cooperative, running, merged_order_queue,
                   strategy_task, forwarding_task, player_order_queues,
                   player_tasks, processed>>

\* a game of four players, the first of them Noisy
NoisyInit ==
    \E s12 \in Suit12Choices, stride \in ShuffleStrides :
        /\ InitEngine(4, s12, stride)
        /\ phase = "Idle"
        /\ loop = "none"
        /\ names = <<"Noisy", "BayesianInference", "Patient", "Greedy">>
        /\ cooperative = 1..4
        /\ InitAsync(4)

NoisyNext ==
    \/ StartRound
    \/ \E p \in 1..players : \E suit \in NoisySuits :
          \E side \in {"bid", "ask"} : \E draw \in Draws :
              NoisyStep(p, suit, side, draw)
    \/ \E p \in OtherPlayers : \E shape \in OtherOrders : Produce(p, shape)
    \/ \E p \in 1..players : StrategyExit(p)
    \/ PipelineStart
    \/ ForwardersStart
    \/ \E p \in 1..players : Forward(p)
    \/ ForwardersExit
    \/ Consume
    \/ ConsumerCancelled
    \/ ConsumerDone
    \/ RoundTimeUp
    \/ RoundEnd

NoisySpec == NoisyInit /\ [][NoisyNext]_vars

-----------------------------------------------------------------------------
(* Properties *)

RECURSIVE SumDollars(_, _)
SumDollars(d, n) == IF n = 0 THEN 0 ELSE d[n] + SumDollars(d, n - 1)

\* the step is a call of add_order
Processed == nOrders' = nOrders + 1

Resting(e) == e.player # None

\* C1: the players' dollars plus the pot add up to 100 per player while the
\* round runs, and once end_round has paid a winner the pot is 0 and the
\* players' dollars alone add up to 100 per player.
C1_CashConservation ==
    /\ phase = "Running" => SumDollars(dollars, players) + pot = 100 * players
    /\ phase = "Settled" => /\ pot = 0
                            /\ SumDollars(dollars, players) = 100 * players

C1_Witness ==
    /\ phase = "Settled"
    /\ last.outcome = "traded"
    /\ \E p \in 1..players : dollars[p] > StartDollars

\* C2: every player's dollars and every held count stay >= 0.
C2_NonNegativeBalances ==
    \A p \in 1..players :
        /\ dollars[p] >= 0
        /\ \A s \in Suit : inventory[p][s] >= 0

\* C3: whenever a suit has both a resting bid and a resting ask, whoever holds
\* them, the bid price is strictly below the ask price.
C3_BookShape ==
    \A s \in Suit :
        (Resting(orderbook[s].bid) /\ Resting(orderbook[s].ask))
            => orderbook[s].bid.price < orderbook[s].ask.price

\* a bid at or above the price of an ask resting for another player
BidOnRestingAsk ==
    /\ Processed
    /\ last'.order.side = "bid"
    /\ Resting(orderbook[last'.order.suit].ask)
    /\ orderbook[last'.order.suit].ask.player # last'.order.player
    /\ last'.order.price >= orderbook[last'.order.suit].ask.price

\* exactly one trade at the ask's price between bidder and asker, bid not resting
TradedAtAsk ==
    LET o == last'.order
        ask == orderbook[o.suit].ask
    IN  /\ last'.outcome = "traded"
        /\ last'.price = ask.price
        /\ last'.receiver = o.player
        /\ last'.giver = ask.player
        /\ inventory'[o.player][o.suit] = inventory[o.player][o.suit] + 1
        /\ inventory'[ask.player][o.suit] = inventory[ask.player][o.suit] - 1
        /\ dollars'[o.player] = dollars[o.player] - ask.price
        /\ dollars'[ask.player] = dollars[ask.player] + ask.price
        /\ orderbook'[o.suit].bid = NoBid

CrossesOwn(o, e) ==
    \/ o.side = "bid" /\ e.ask.player = o.player /\ e.ask.price <= o.price
    \/ o.side = "ask" /\ e.bid.player = o.player /\ e.bid.price >= o.price

\* the order revises the resting order its own issuer holds on the same side
RevisesOwn(o, e) ==
    \/ o.side = "bid" /\ e.bid.player = o.player
    \/ o.side = "ask" /\ e.ask.player = o.player

\* C5: no trade has the same player as receiver and giver; an order that
\* crosses its issuer's own resting order on the other side trades with nobody;
\* an order revising its issuer's own resting order trades, if at all, with
\* its issuer on one side only.
C5_NoSelfTrade ==
    [][Processed =>
        /\ last'.outcome = "traded" => last'.receiver # last'.giver
        /\ CrossesOwn(last'.order, orderbook[last'.order.suit])
              => /\ last'.outcome # "traded"
                 /\ dollars' = dollars
                 /\ inventory' = inventory
        /\ (RevisesOwn(last'.order, orderbook[last'.order.suit])
                /\ last'.outcome = "traded")
              => last'.order.player \in {last'.receiver, last'.giver}]_vars

C5_Witness ==
    /\ last.outcome = "rested"
    /\ last.order.side = "bid"
    /\ last.before.ask.player = last.order.player
    /\ last.before.ask.price <= last.order.price
    /\ orderbook[last.order.suit].bid.player = last.order.player
    /\ orderbook[last.order.suit].ask.player = last.order.player

\* C6: a trade at price p in suit c moves p dollars from receiver to giver and
\* one card of c from giver to receiver, resets both sides of c's book, sets
\* c's last traded price to p, and changes no other balance.
C6_SettlementEffect ==
    [][(Processed /\ last'.outcome = "traded") =>
        LET r == last'.receiver
            g == last'.giver
            c == last'.order.suit
            p == last'.price
        IN  /\ \A q \in 1..players :
                   dollars'[q] = dollars[q] - (IF q = r THEN p ELSE 0)
                                            + (IF q = g THEN p ELSE 0)
            /\ \A q \in 1..players : \A s \in Suit :
                   inventory'[q][s] =
                       inventory[q][s] + (IF q = r /\ s = c THEN 1 ELSE 0)
                                       - (IF q = g /\ s = c THEN 1 ELSE 0)
            /\ orderbook'[c].bid = [price |-> -999, player |-> None]
            /\ orderbook'[c].ask = [price |-> 999, player |-> None]
            /\ orderbook'[c].last_traded_price = p
            /\ pot' = pot]_vars

\* a trade that wiped a resting order of a player who took no part in it
C6_Witness ==
    /\ last.outcome = "traded"
    /\ \/ /\ Resting(last.before.bid)
          /\ last.before.bid.player \notin {last.receiver, last.giver}
       \/ /\ Resting(last.before.ask)
          /\ last.before.ask.player \notin {last.receiver, last.giver}
    /\ orderbook[last.order.suit].bid = NoBid
    /\ orderbook[last.order.suit].ask = NoAsk

\* C7: after a trade, in every other suit a bid of the receiver above the
\* receiver's new dollars is reset to the sentinel, and every other bid, every
\* ask and every last traded price there is unchanged.
C7_CascadingCancellation ==
    [][(Processed /\ last'.outcome = "traded") =>
        \A s \in Suit \ {last'.order.suit} :
            /\ orderbook'[s].ask = orderbook[s].ask
            /\ orderbook'[s].last_traded_price = orderbook[s].last_traded_price
            /\ orderbook'[s].bid =
                  IF /\ orderbook[s].bid.player = last'.receiver
                     /\ orderbook[s].bid.price > dollars'[last'.receiver]
                  THEN [price |-> -999, player |-> None]
                  ELSE orderbook[s].bid
            /\ (s \in {x.suit : x \in last'.cancelled})
                  <=> (orderbook'[s].bid # orderbook[s].bid)]_vars

\* a trade that cancelled a bid which was within the receiver's dollars before it
C7_Witness ==
    /\ last.outcome = "traded"
    /\ \E x \in last.cancelled :
          /\ x.price <= dollars[last.receiver] + last.price
          /\ x.price > dollars[last.receiver]
          /\ orderbook[x.suit].bid = NoBid

\* C8: every resting bid is priced at most at its holder's current dollars.
C8_HonorableBids ==
    \A s \in Suit :
        Resting(orderbook[s].bid)
            => orderbook[s].bid.price <= dollars[orderbook[s].bid.player]

\* C9: an order that add_order rejects, or whose trade _trade rejects, leaves
\* the whole book, all dollars and inventories and the pot as they were.
C9_ZeroMutationOnRejection ==
    [][(Processed /\ last'.outcome \in {"rejected", "trade_rejected"}) =>
        /\ orderbook' = orderbook
        /\ dollars' = dollars
        /\ inventory' = inventory
        /\ pot' = pot]_vars

\* a rejected trade against a resting order, which is still resting
C9_Witness ==
    /\ last.outcome = "trade_rejected"
    /\ orderbook[last.order.suit] = last.before
    /\ Resting(last.before.bid) \/ Resting(last.before.ask)

NeitherRejectedNorCrossing(o, e, inv) ==
    \/ /\ o.side = "bid"
       /\ ~(o.price <= e.bid.price /\ e.bid.player # o.player)
       /\ ~(e.ask.price <= o.price /\ e.ask.player # o.player)
    \/ /\ o.side = "ask"
       /\ inv[o.player][o.suit] >= 1
       /\ ~(o.price >= e.ask.price /\ e.ask.player # o.player)
       /\ ~(e.bid.price >= o.price /\ e.bid.player # o.player)

IsOrderPlaced(ev) == ev.type = "OrderPlacedEvent"

\* C11: an order that is neither rejected nor crossing rests as (price, issuer)
\* on its side of its suit, changes nothing else (other side, last traded
\* price, other suits, balances, pot), trades with nobody and publishes exactly
\* one OrderPlacedEvent carrying its issuer and itself; any other order
\* publishes no OrderPlacedEvent.
C11_Resting ==
    [][Processed =>
        LET o == last'.order
            e == orderbook[o.suit]
        IN  IF NeitherRejectedNorCrossing(o, e, inventory)
            THEN /\ last'.outcome = "rested"
                 /\ orderbook'[o.suit][o.side] = [price |-> o.price, player |-> o.player]
                 /\ \A side \in {"bid", "ask"} \ {o.side} :
                        orderbook'[o.suit][side] = e[side]
                 /\ orderbook'[o.suit].last_traded_price = e.last_traded_price
                 /\ \A s \in Suit \ {o.suit} : orderbook'[s] = orderbook[s]
                 /\ dollars' = dollars /\ inventory' = inventory /\ pot' = pot
                 /\ last'.receiver = None /\ last'.giver = None
                 /\ last'.events =
                        <<[type |-> "OrderPlacedEvent", player |-> o.player,
                           order |-> o]>>
            ELSE /\ last'.outcome \in {"rejected", "traded", "trade_rejected", "raised"}
                 /\ \A i \in 1..Len(last'.events) : ~IsOrderPlaced(last'.events[i])]_vars

\* an ask resting next to another player's lower bid
C11_Witness ==
    /\ last.outcome = "rested"
    /\ last.order.side = "ask"
    /\ Resting(last.before.bid)
    /\ last.before.bid.player # last.order.player
    /\ orderbook[last.order.suit].ask.player = last.order.player
    /\ orderbook[last.order.suit].bid = last.before.bid
    /\ Len(last.events) = 1

\* C12: every executed trade is priced at the minimum of the incoming price and
\* the resting opposite price: an incoming bid trades at the resting ask's price
\* with the asker as giver, an incoming ask at P trades at P with the resting
\* bidder as receiver, and the incoming order is not in the book afterwards.
C12_TradePrice ==
    [][(Processed /\ last'.outcome = "traded") =>
        LET o == last'.order
            e == orderbook[o.suit]
        IN  /\ o.side = "bid" =>
                /\ last'.price = e.ask.price
                /\ e.ask.price <= o.price
                /\ last'.receiver = o.player /\ last'.giver = e.ask.player
            /\ o.side = "ask" =>
                /\ last'.price = o.price
                /\ o.price <= e.bid.price
                /\ last'.receiver = e.bid.player /\ last'.giver = o.player
            /\ orderbook'[o.suit].last_traded_price = last'.price
            /\ dollars'[last'.giver] = dollars[last'.giver] + last'.price
            /\ ~Resting(orderbook'[o.suit].bid)
            /\ ~Resting(orderbook'[o.suit].ask)]_vars

\* an ask below another player's resting bid traded at the ask's own price
C12_Witness ==
    /\ last.outcome = "traded"
    /\ last.order.side = "ask"
    /\ last.before.bid.price > last.order.price
    /\ last.price = last.order.price
    /\ last.receiver = last.before.bid.player

\* the step changes what add_order works on: the book, the inventories, the
\* count and list of processed orders, or the dollars other than by the
\* payout of end_round
EngineStep ==
    \/ orderbook' # orderbook
    \/ inventory' # inventory
    \/ nOrders' # nOrders
    \/ processed' # processed
    \/ (dollars' # dollars /\ phase' = phase)

\* C13: matching decisions are made one at a time by the order processing
\* loop alone: every step that touches the engine state is one iteration of
\* that loop, it takes exactly the order at the head of the merged queue and
\* leaves the complete result of add_order on that order (settlement and
\* cascading cancellation included), and the processed orders form one
\* sequence that grows by that order only, whatever the strategies and
\* forwarding tasks do in between.
C13_SingleMatching ==
    [][EngineStep =>
        /\ phase = "Running" /\ loop = "alive"
        /\ merged_order_queue # <<>>
        /\ merged_order_queue' = Tail(merged_order_queue)
        /\ order_queue' = order_queue
        /\ nOrders' = nOrders + 1
        /\ Len(processed') = nOrders'
        /\ processed' = Append(processed, <<Head(merged_order_queue).owner,
                                            Head(merged_order_queue).seq>>)
        /\ LET o == Head(merged_order_queue).order
               r == IF o.side = "bid"
                    THEN AddBid(orderbook, dollars, inventory, o)
                    ELSE AddAsk(orderbook, dollars, inventory, o)
           IN  /\ last'.order = o
               /\ last'.outcome = r.outcome
               /\ last'.cancelled = r.cancelled
               /\ orderbook' = r.book
               /\ dollars' = r.dollars
               /\ inventory' = r.inventory]_vars

\* two orders of different players were processed one after the other, the
\* second one trading against the first, while a third order was waiting
C13_Witness ==
    /\ Len(processed) = 2
    /\ processed[1][1] # processed[2][1]
    /\ last.outcome = "traded"
    /\ \E p \in 1..players : order_queue[p] # <<>>

\* C14: the orders of one player are processed in the order in which the
\* player put them on its order queue: of two processed orders of the same
\* player the one processed first was put first, and an order of a player
\* is never processed while an earlier order of that player is still on the
\* way.
C14_PerAgentFIFO ==
    /\ \A i, j \in 1..Len(processed) :
           (i < j /\ processed[i][1] = processed[j][1])
               => processed[i][2] < processed[j][2]
    /\ \A i \in 1..Len(processed), k \in 1..Len(merged_order_queue) :
           processed[i][1] = merged_order_queue[k].owner
               => processed[i][2] < merged_order_queue[k].seq
    /\ \A i \in 1..Len(processed), p \in 1..players :
           \A k \in 1..Len(order_queue[p]) :
               processed[i][1] = order_queue[p][k].owner
                   => processed[i][2] < order_queue[p][k].seq

\* two orders of one player were processed, an order of another player
\* between them
C14_Witness ==
    /\ Len(processed) = 3
    /\ processed[1][1] = processed[3][1]
    /\ processed[1][1] # processed[2][1]
    /\ processed[1][2] < processed[3][2]

\* C15: once _process_player_orders has created its forwarding tasks, the
\* order queue of every player of the players list has a forwarding task,
\* also when several players carry the same name.
C15_RelayPerPlayer ==
    loop \notin {"none", "created"} =>
        \A p \in 1..players : forwarding_task[p] # "none"

\* the identities <<owner, seq>> of the orders on a queue
IdsOf(q) == {<<q[k].owner, q[k].seq>> : k \in 1..Len(q)}

\* C16: no order is passed to add_order twice: the processed orders are
\* pairwise different, an order that was processed is on no queue any more,
\* no order is on a queue twice or on two queues, and no more orders were
\* processed than were put, also after the forwarding tasks and the order
\* processing loop were cancelled.
C16_NoDoubleProcessing ==
    /\ \A i, j \in 1..Len(processed) : i # j => processed[i] # processed[j]
    /\ \A i \in 1..Len(processed) :
           /\ processed[i] \notin IdsOf(merged_order_queue)
           /\ \A p \in 1..players : processed[i] \notin IdsOf(order_queue[p])
           /\ processed[i][2] <= produced[processed[i][1]]
    /\ Cardinality(IdsOf(merged_order_queue)) = Len(merged_order_queue)
    /\ \A p \in 1..players :
           /\ Cardinality(IdsOf(order_queue[p])) = Len(order_queue[p])
           /\ IdsOf(order_queue[p]) \cap IdsOf(merged_order_queue) = {}
    /\ Len(processed) = nOrders

\* the round was shut down after two orders were processed, the order
\* processing loop and the forwarding tasks were cancelled and have ended,
\* and a third order is left on the merged queue
C16_Witness ==
    /\ phase = "Settled"
    /\ loop = "done"
    /\ Len(processed) = 2
    /\ merged_order_queue # <<>>
    /\ \E p \in 1..players : forwarding_task[p] = "done"

\* end_round has been called
Ended == phase \in {"Settled", "NoWinner"}

\* the orders on a queue that were put while the round was Running
PutWhileRunning(q) == {k \in 1..Len(q) : q[k].put_in = "Running"}

\* C17: when end_round has been called, no order that was put on an order
\* queue while the round was Running is left on an order queue or on the
\* merged queue: all of them were processed.
C17_NoLostOrders ==
    Ended =>
        /\ PutWhileRunning(merged_order_queue) = {}
        /\ \A p \in 1..players : PutWhileRunning(order_queue[p]) = {}

\* C18: when end_round is called, the order processing loop, every
\* forwarding task and the strategy task of every player of the players list
\* have ended, so that nothing is produced or processed afterwards.
C18_CleanDrain ==
    Ended =>
        /\ loop \in {"done", "crashed"}
        /\ \A p \in 1..players :
               /\ forwarding_task[p] \in {"none", "done"}
               /\ strategy_task[p] = "done"

\* C19: once the round is Draining, start_round always gets to call
\* end_round, also when the strategy of some player goes on after it was
\* cancelled.
C19_BoundedDrain == (phase = "Draining") ~> Ended

\* the phases of start_round in their order
PhaseOrder ==
    {<<"Idle", "Running">>, <<"Running", "Draining">>,
     <<"Draining", "Settled">>, <<"Draining", "NoWinner">>}

\* C20: a call of start_round goes from Running to Draining to the call of
\* end_round, in that order and never back; on entering Draining the
\* running flag is cleared and the order processing task and the gathered
\* strategy tasks are cancelled; end_round is called only from Draining,
\* with the flag cleared and those tasks ended, be it by cancellation or
\* with an exception; it pays the pot once and nothing changes phase, pot
\* or dollars after it; and when every strategy ends on cancellation, a
\* round that is Draining does get to its call of end_round.
C20_Lifecycle ==
    /\ [][/\ phase' # phase => <<phase, phase'>> \in PhaseOrder
          /\ (phase' # phase /\ phase' = "Draining") =>
                /\ ~running'
                /\ loop' \in {"cancelling", "gathering", "done", "crashed"}
                /\ \A p \in Range(player_tasks) :
                       strategy_task'[p] \in {"cancelling", "done"}
          /\ (phase' # phase /\ phase' \in {"Settled", "NoWinner"}) =>
                /\ ~running
                /\ loop \in {"done", "crashed"}
                /\ \A p \in Range(player_tasks) : strategy_task[p] = "done"
          /\ pot' # pot => (phase = "Draining" /\ phase' = "Settled" /\ pot' = 0)
          /\ Ended => (phase' = phase /\ pot' = pot /\ dollars' = dollars)
          /\ running' # running => (running' <=> phase = "Idle")]_vars
    /\ (phase = "Draining" /\ cooperative = 1..players) ~> Ended

\* end_round was called after add_order had ended the order processing task
\* with a ValueError
C20_Witness ==
    /\ phase = "Settled"
    /\ loop = "crashed"
    /\ last.outcome = "raised"
    /\ ~running

Settling == phase' # phase /\ phase' \in {"Settled", "NoWinner"}

\* the players holding the most cards of the goal suit
MaxHolders(inv, goal) ==
    {p \in 1..Len(inv) : \A q \in 1..Len(inv) : inv[p][goal] >= inv[q][goal]}

\* the players whose dollars the step changes
Paid == {p \in 1..players : dollars'[p] # dollars[p]}

\* C22: end_round always finds a winner and pays the whole pot, 40 dollars
\* per player, to exactly one player, who holds at least as many cards of the
\* goal suit as every other player; the pot is 0 afterwards, and the other
\* players' dollars, all inventories and the book are as before.
C22_SettlementWinner ==
    [][Settling =>
        /\ phase' = "Settled"
        /\ pot = 40 * players
        /\ pot' = 0
        /\ Cardinality(Paid) = 1
        /\ \A w \in Paid :
               /\ w \in MaxHolders(inventory, goal_suit)
               /\ dollars'[w] = dollars[w] + 40 * players
        /\ inventory' = inventory
        /\ orderbook' = orderbook]_vars

\* the pot was paid after a trade in the goal suit, to a player who did not
\* hold the most goal cards when the round began
C22_Witness ==
    /\ phase = "Settled"
    /\ pot = 0
    /\ last.outcome = "traded"
    /\ last.order.suit = goal_suit
    /\ \E w \in MaxHolders(inventory, goal_suit) :
           /\ dollars[w] > 100
           /\ inventory[w][goal_suit] = 4
           /\ last.receiver = w

\* C23: when several players hold the maximum of the goal suit, end_round
\* pays the pot to one of them only, the one that comes first in the players
\* list.
C23_TieBreak ==
    [][Settling =>
        \A w \in Paid :
            /\ w \in MaxHolders(inventory, goal_suit)
            /\ \A q \in MaxHolders(inventory, goal_suit) : w <= q
            /\ \A q \in MaxHolders(inventory, goal_suit) \ {w} :
                   dollars'[q] = dollars[q]]_vars

\* end_round has paid the first of two or more players tied at the maximum
C23_Witness ==
    /\ phase = "Settled"
    /\ Cardinality(MaxHolders(inventory, goal_suit)) >= 2
    /\ \E w \in MaxHolders(inventory, goal_suit) :
           /\ \A q \in MaxHolders(inventory, goal_suit) : w <= q
           /\ dollars[w] >= 40 * players
           /\ \A q \in MaxHolders(inventory, goal_suit) \ {w} :
                  dollars[q] < 40 * players

\* the sequence numbers of the events on an event queue
SeqsOn(q) == {event_queue[q][k].seq : k \in 1..Len(event_queue[q])}

\* C24: publish never waits for a subscriber: whatever the event queues
\* hold, full ones included, add_order can be called with every order and
\* runs to its end without putting anything on an event queue itself, and a
\* put of an event on a queue that has room can run whatever the state of
\* the other queues.
C24_NonBlockingPublish ==
    /\ [](/\ (phase = "Running" /\ loop = "alive" /\ nOrders < MaxOrders) =>
                \A o \in BusOrders : ENABLED AddOrder(o)
          /\ \A t \in put_tasks : ~Full(t.queue) => ENABLED PutEvent(t))
    /\ [][Processed => event_queue' = event_queue]_vars

\* a bounded queue is full and a put of an event waits for room on it, the
\* same event is on another queue, and add_order has been called again since
C24_Witness ==
    \E t \in put_tasks :
        /\ t.queue \in BoundedQueues
        /\ Full(t.queue)
        /\ \E q \in SubscriberQueues \ {t.queue} : t.seq \in SeqsOn(q)
        /\ nOrders > t.seq

\* C25: a call of add_order that publishes an event creates one put for
\* every queue subscribed to the event's type at that moment and for no
\* other queue; only these puts place events on queues, each once; a
\* subscription places nothing, so that events published before it are not
\* replayed.
C25_DeliverySet ==
    [][/\ Processed =>
            /\ put_tasks \subseteq put_tasks'
            /\ put_tasks' \ put_tasks =
                   IF last'.events = <<>> \/ last'.events[1].type \notin DOMAIN subscribers
                   THEN {}
                   ELSE {[event |-> last'.events[1], seq |-> nOrders', queue |-> q] :
                            q \in subscribers[last'.events[1].type]}
       /\ ~Processed => put_tasks' \subseteq put_tasks
       /\ \A q \in DOMAIN event_queue :
            event_queue'[q] # event_queue[q] =>
                \/ /\ event_queue[q] # <<>>
                   /\ event_queue'[q] = Tail(event_queue[q])
                   /\ put_tasks' = put_tasks
                \/ \E t \in put_tasks :
                       /\ t.queue = q
                       /\ t.seq \notin SeqsOn(q)
                       /\ put_tasks' = put_tasks \ {t}
                       /\ event_queue'[q] =
                              Append(event_queue[q], [event |-> t.event, seq |-> t.seq])
       /\ \A q \in DOMAIN event_queue :
            Cardinality(SeqsOn(q)) = Len(event_queue[q])]_vars

\* a TradeExecutedEvent is on the queue that is subscribed to that type only,
\* an OrderPlacedEvent published before it is on the other queue and not on
\* this one, and the trade is on its way to the other queue
C25_Witness ==
    /\ "OrderPlacedEvent" \in DOMAIN subscribers
    /\ 2 \notin subscribers["OrderPlacedEvent"]
    /\ \E k \in 1..Len(event_queue[2]) :
           /\ event_queue[2][k].event.type = "TradeExecutedEvent"
           /\ \E t \in put_tasks : t.queue = 1 /\ t.seq = event_queue[2][k].seq
    /\ \E k \in 1..Len(event_queue[1]) :
           /\ event_queue[1][k].event.type = "OrderPlacedEvent"
           /\ event_queue[1][k].seq \notin SeqsOn(2)

\* C26: a call of add_order that rejects the order, or whose trade is
\* rejected, publishes an event or returns something else than a call that
\* accepts the order; and a call that trades publishes one
\* TradeExecutedEvent, with the receiver, the giver, the suit and the price
\* of the trade.
C26_RejectionsObservable ==
    [][Processed =>
        /\ last'.outcome \in {"rejected", "trade_rejected"} =>
               \/ last'.events # <<>>
               \/ \A accepted \in {"rested", "traded"} :
                      ReturnedStatus(last'.outcome) # ReturnedStatus(accepted)
        /\ last'.outcome = "traded" =>
               last'.events = <<[type |-> "TradeExecutedEvent",
                                 receiver |-> last'.receiver, giver |-> last'.giver,
                                 suit |-> last'.order.suit, price |-> last'.price]>>]_vars

\* C28: when add_order publishes an event, the book, the dollars and the
\* inventories are already what the call leaves behind: for a
\* TradeExecutedEvent the balances are moved, the suit is reset and the
\* receiver's bids that it can no longer pay are cancelled.
C28_PublicationAfterMutation ==
    [][(Processed /\ last'.events # <<>>) =>
        last'.published_on = [book |-> orderbook', dollars |-> dollars',
                              inventory |-> inventory']]_vars

\* C30: _trade never rejects: whenever add_order calls _trade the receiver
\* has the dollars of the price and the giver holds a card of the suit.
C30_TradeNeverRejected == last.outcome # "trade_rejected"

\* the cards in the hands of all players, of one suit
RECURSIVE Dealt(_, _, _)
Dealt(inv, s, n) == IF n = 0 THEN 0 ELSE inv[n][s] + Dealt(inv, s, n - 1)

HandSize(hand) == hand["hearts"] + hand["diamonds"] + hand["clubs"] + hand["spades"]

\* C27: GameController(players) raises for fewer than 4 or more than 5
\* players and sets nothing; for 4 (5) players it deals 10 (8) cards to each
\* player, all 40 cards of a deck of 12, 10, 10 and 8 cards of the four
\* suits, leaves every player 60 dollars and the pot 40 times the number of
\* players, and every suit's book at the sentinels with last traded price 0.
C27_NewRound ==
    [][phase = "Unbuilt" =>
        /\ (players < 4 \/ players > 5) =>
               (phase' = "ValueError" /\ UNCHANGED engineVars)
        /\ players \in {4, 5} =>
               /\ phase' = "Idle"
               /\ DOMAIN inventory' = 1..players
               /\ \A p \in 1..players :
                      /\ HandSize(inventory'[p]) = IF players = 4 THEN 10 ELSE 8
                      /\ \A s \in Suit : inventory'[p][s] >= 0
                      /\ dollars'[p] = 60
               /\ \E s12 \in Suit : \E s8 \in Suit \ {s12} :
                      /\ suit_counts'[s12] = 12
                      /\ suit_counts'[s8] = 8
                      /\ \A s \in Suit \ {s12, s8} : suit_counts'[s] = 10
               /\ \A s \in Suit : Dealt(inventory', s, players) = suit_counts'[s]
               /\ pot' = 40 * players
               /\ \A s \in Suit :
                      orderbook'[s] = [bid |-> [price |-> -999, player |-> None],
                                       ask |-> [price |-> 999, player |-> None],
                                       last_traded_price |-> 0]]_vars

\* five players dealt eight cards each, the 8-card suit being spades
C27_Witness ==
    /\ phase = "Idle"
    /\ players = 5
    /\ suit_counts["spades"] = 8
    /\ \A p \in 1..players : HandSize(inventory[p]) = 8
    /\ pot = 200

\* the book, the balances and the pot
Ledger == <<orderbook, dollars, inventory, pot>>

\* a step of a strategy task: it puts an order, takes an event, or ends or
\* goes on after its cancellation
StrategyUnitStep ==
    \/ produced' # produced
    \/ \E p \in 1..players :
           strategy_task[p] = "cancelling" /\ strategy_task'[p] # "cancelling"
    \/ \E q \in DOMAIN event_queue :
           Len(event_queue'[q]) < Len(event_queue[q])

\* a step of a forwarding task: it moves an order or ends
RelayStep ==
    \/ Len(merged_order_queue') > Len(merged_order_queue)
    \/ \E p \in 1..players :
           forwarding_task[p] = "waiting" /\ forwarding_task'[p] # "waiting"

\* C29: until end_round the book, the dollars, the inventories and the pot
\* change only in a call of add_order by the order processing loop; a step
\* of a strategy task or of a forwarding task leaves them all unchanged, a
\* strategy step changing the order queues only by putting one order at the
\* end of the strategy's own queue.
C29_SingleWriter ==
    [][/\ (Ledger' # Ledger /\ phase' \notin {"Settled", "NoWinner"}) =>
              /\ Processed
              /\ phase = "Running" /\ loop = "alive"
              /\ pot' = pot
       /\ StrategyUnitStep =>
              /\ Ledger' = Ledger
              /\ merged_order_queue' = merged_order_queue
              /\ \A p \in 1..players :
                     \/ order_queue'[p] = order_queue[p]
                     \/ /\ Len(order_queue'[p]) = Len(order_queue[p]) + 1
                        /\ order_queue'[p][Len(order_queue'[p])].owner = p
                        /\ SubSeq(order_queue'[p], 1, Len(order_queue[p]))
                              = order_queue[p]
       /\ RelayStep => Ledger' = Ledger]_vars

\* a round in which strategies put orders, forwarding tasks moved them, a
\* trade changed the dollars, and the tasks of both kinds have ended
C29_Witness ==
    /\ phase = "Draining"
    /\ last.outcome = "traded"
    /\ dollars[last.receiver] = 60 - last.price
    /\ produced[1] > 0 /\ produced[2] > 0
    /\ \E p \in 1..players : strategy_task[p] = "done"
    /\ \E p \in 1..players : forwarding_task[p] = "done"

\* C31: no order makes add_order raise or ends the order processing loop:
\* every call of add_order returns, and while the round is running the loop
\* is alive after it and goes on to the next order.
C31_ProcessingContinues ==
    [][Processed =>
        /\ last'.outcome \in {"rested", "traded", "rejected", "trade_rejected"}
        /\ running => loop' = "alive"]_vars

\* C32: for every suit the cards held by all players add up to the suit's
\* count in the deck (12, 10, 10 or 8), after __init__, after every order
\* and after end_round; the four sums total 40.
C32_InventoryConservation ==
    /\ \A s \in Suit : Dealt(inventory, s, players) = suit_counts[s]
    /\ \A s \in Suit : suit_counts[s] \in {8, 10, 12}
    /\ Dealt(inventory, "hearts", players) + Dealt(inventory, "diamonds", players)
         + Dealt(inventory, "clubs", players) + Dealt(inventory, "spades", players)
         = 40

\* a round settled after a card has changed hands
C32_Witness ==
    /\ phase = "Settled"
    /\ last.outcome = "traded"
    /\ inventory[last.giver][last.order.suit] < suit_counts[last.order.suit]

\* C33: the holder of a resting ask holds at least one card of the suit.
C33_HonorableAsks ==
    \A s \in Suit :
        Resting(orderbook[s].ask) => inventory[orderbook[s].ask.player][s] >= 1

\* an ask resting in one suit while its holder gave its last card of
\* another suit in a trade
C33_Witness ==
    /\ last.outcome = "traded"
    /\ inventory[last.giver][last.order.suit] = 0
    /\ \E s \in Suit \ {last.order.suit} :
           /\ orderbook[s].ask.player = last.giver
           /\ inventory[last.giver][s] >= 1

\* C34: some player always holds a card of the goal suit, so end_round
\* never raises "No winner found" and always pays the pot out.
C34_WinnerExists ==
    /\ goal_suit \in Suit
    /\ \E p \in 1..players : inventory[p][goal_suit] >= 1
    /\ phase # "NoWinner"
    /\ phase = "Settled" => pot = 0

\* a round settled after the goal suit was traded
C34_Witness ==
    /\ phase = "Settled"
    /\ last.outcome = "traded"
    /\ last.order.suit = goal_suit
    /\ pot = 0

\* C35: every order a Noisy strategy puts on its order queue has a price
\* from 1 to 15; a bid is at most the player's dollars when the strategy
\* decides and is put only while the player holds fewer than 3 cards of the
\* suit, and an ask only while the player holds a card of the suit.
C35_NoisyPriceBand ==
    [][\A p \in 1..players :
          (names[p] = "Noisy" /\ Len(order_queue'[p]) = Len(order_queue[p]) + 1) =>
              LET o == order_queue'[p][Len(order_queue'[p])].order
              IN  /\ o.player = p
                  /\ o.price >= 1 /\ o.price <= 15
                  /\ o.side = "bid" =>
                         (o.price <= dollars[p] /\ inventory[p][o.suit] < 3)
                  /\ o.side = "ask" => inventory[p][o.suit] >= 1]_vars
====
